---- MODULE Spec2Model ----
(***************************************************************************)
(* Host-key verification and known-hosts persistence of the go.crypto SSH  *)
(* client (src/ssh/ssh_gocrypto.go): goCryptoCommand.hostKeyCallback,      *)
(* checkHostKey and getTerminal, run by several verifications that share   *)
(* one known-hosts file and the "juju-ssh-client" cross-process mutex.     *)
(***************************************************************************)
EXTENDS Integers, Sequences, FiniteSets, TLC

\* ------------------------------------------------------------------ bounds
\* Number of verifications (client processes / connections) in the model.
NProcs == 2
\* Number of hostKeyCallback invocations that may start in one behaviour;
\* it bounds the growth of the known-hosts file.
MaxCalls == 2
\* Number of lines one invocation may read from the terminal.
MaxLines == 2
\* Number of records in the store files that the checks of the warning text
\* start from.
MaxRecords == 3
\* Number of connections one command may dial in one behaviour.
MaxDials == 2

Procs == 1..NProcs

\* ------------------------------------------------------------- value sets
Nil == "nil"

\* StrictHostChecksOption values consulted by the switch at lines 293-339.
StrictHostChecksDefault == "StrictHostChecksDefault"
StrictHostChecksNo == "StrictHostChecksNo"
StrictHostChecksYes == "StrictHostChecksYes"
StrictHostChecksAsk == "StrictHostChecksAsk"
Policies ==
  {StrictHostChecksDefault, StrictHostChecksNo, StrictHostChecksYes, StrictHostChecksAsk}

\* Paths: the shared store file and os.DevNull; "" is "not configured".
KnownHostsPath == "known_hosts"
DevNull == "/dev/null"

\* hostname as the transport passes it: host and port (addr, line 76).
Hostnames ==
  { [host |-> "example.com", port |-> "22"],
    [host |-> "example.com", port |-> "2222"] }

\* ssh.PublicKey: its Type() and its marshalled bytes.
K1 == [type |-> "ssh-rsa", blob |-> "K1"]
K2 == [type |-> "ssh-rsa", blob |-> "K2"]
E1 == [type |-> "ssh-ed25519", blob |-> "E1"]
PublicKeys == {K1, K2, E1}

\* Lines a user may type at the prompt, as sequences of characters.
LineYes == <<"y", "e", "s">>
LineNo == <<"n", "o">>
Lines ==
  { LineYes, <<"Y", "E", "S">>, LineNo, <<"N", "o">>, <<"y">>, <<>> }

\* Error values returned by hostKeyCallback (Nil is accept).
ErrNotConfigured == "known_hosts file not configured"
ErrTerminal == "getTerminal: MakeRaw failed"
ErrLoad == "knownhosts.New failed"
ErrKeyMismatch == "knownhosts: key mismatch"
ErrPrintWarning == "failed to print host key mismatch warning"
ErrNoTerminal == "not running in a terminal, cannot prompt for verification"
ErrReadLine == "term.ReadLine failed"
ErrUserNo == "Host key verification failed."
ErrStrict == "no host key is known and you have requested strict checking"
ErrMutex == "mutex.Acquire failed"
ErrReadFile == "ioutil.ReadFile failed"
ErrWriteFile == "utils.AtomicWriteFile failed"

\* ------------------------------------------------- known-hosts file text
\* The file content is a sequence of tokens: a newline, a comment text, or
\* the text of one entry "<hosts> <keyType> <base64Key>".
NoPattern == [host |-> "", port |-> ""]
NL == [kind |-> "nl", hosts |-> NoPattern, type |-> "", key |-> ""]
Comment == [kind |-> "comment", hosts |-> NoPattern, type |-> "", key |-> ""]

\* knownhosts.Normalize: the port is dropped when it is the default one,
\* otherwise the address is kept in its "[host]:port" form.
Normalize(hostname) ==
  IF hostname.port = "22" THEN [host |-> hostname.host, port |-> ""] ELSE hostname

\* knownhosts.Line([]string{hostname}, key), without the newline.
KnownHostsLine(hostname, key) ==
  [kind |-> "entry", hosts |-> Normalize(hostname), type |-> key.type, key |-> key.blob]

\* The address a stored host pattern stands for (no port means port 22).
PatternAddr(pattern) ==
  IF pattern.port = "" THEN [host |-> pattern.host, port |-> "22"] ELSE pattern

\* 1-based number of the line that holds token i.
LineOf(data, i) == 1 + Cardinality({j \in 1..(i - 1) : data[j] = NL})

\* Token i is the whole text of its line.
AloneOnLine(data, i) ==
  /\ (i = 1 \/ data[i - 1] = NL)
  /\ (i = Len(data) \/ data[i + 1] = NL)

\* Token i is a parsed entry of the store.
IsEntry(data, i) == data[i].kind = "entry" /\ AloneOnLine(data, i)

\* The callback built by knownhosts.New, applied to (hostname, key): the
\* lines are scanned in order; a line for the host with an equal key ends
\* the scan with nil; otherwise the result is a KeyError whose Want lists
\* the known keys of the host (empty: unknown host).
RECURSIVE CheckFrom(_, _, _, _, _)
CheckFrom(data, i, hostname, key, want) ==
  IF i > Len(data)
  THEN [err |-> "KeyError", want |-> want]
  ELSE IF IsEntry(data, i) /\ PatternAddr(data[i].hosts) = hostname
       THEN IF data[i].type = key.type /\ data[i].key = key.blob
            THEN [err |-> Nil, want |-> <<>>]
            ELSE CheckFrom(data, i + 1, hostname, key,
                           Append(want, [type |-> data[i].type, line |-> LineOf(data, i)]))
       ELSE CheckFrom(data, i + 1, hostname, key, want)

KnownHostsCallback(data, hostname, key) == CheckFrom(data, 1, hostname, key, <<>>)

\* ------------------------------------------------------------------ state
VARIABLES
  knownHosts,   \* the store file: [exists, data]
  mutexHolder,  \* holder of the "juju-ssh-client" mutex: nobody, another program, or a verification
  calls,        \* invocations of hostKeyCallback started so far
  pc,           \* position of each verification in hostKeyCallback
  cb,           \* arguments, configuration and locals of each invocation
  hist,         \* what each invocation has observed and done (history)
  store0,       \* the store file as it was at the start (history)
  added,        \* the lines written by the invocations, in order (history)
  cmd,          \* a goCryptoCommand: its signers, user, command, client and sess
  ret,          \* the last method called on the command and what it returned (history)
  dials         \* connections dialled for the command so far

vars == <<knownHosts, mutexHolder, calls, pc, cb, hist, store0, added, cmd, ret, dials>>

\* The variables of the command and its session.
cmdVars == <<cmd, ret, dials>>

\* The variables of the host-key verifications.
hkVars == <<knownHosts, mutexHolder, calls, pc, cb, hist, store0, added>>

\* Values of mutexHolder.
Free == [kind |-> "free", id |-> 0]
Other == [kind |-> "other", id |-> 0]
HeldBy(p) == [kind |-> "verification", id |-> p]

NoWarning == [kind |-> "none", keys |-> <<>>]

IdleFrame ==
  [ hostname |-> [host |-> "", port |-> ""],
    key |-> [type |-> "", blob |-> ""],
    knownHostsFile |-> "",
    strictHostKeyChecking |-> StrictHostChecksDefault,
    term |-> "none",
    raw |-> FALSE,
    warnAdd |-> FALSE,
    knownHostsData |-> <<>>,
    err |-> Nil ]

IdleHist ==
  [ before |-> [exists |-> FALSE, data |-> <<>>],
    outcome |-> "none",
    warning |-> NoWarning,
    prompts |-> 0,
    lines |-> <<>>,
    acquired |-> FALSE,
    wrote |-> FALSE,
    ioerr |-> FALSE,
    dropped |-> "none" ]

Ent(hostname, key) == KnownHostsLine(hostname, key)
H22 == [host |-> "example.com", port |-> "22"]
H2222 == [host |-> "example.com", port |-> "2222"]

\* Store files a verification may find: missing, empty, with and without a
\* final newline, with a comment, with two key types of one host.
InitialFiles ==
  { [exists |-> FALSE, data |-> <<>>],
    [exists |-> TRUE, data |-> <<>>],
    [exists |-> TRUE, data |-> <<Ent(H22, K1), NL>>],
    [exists |-> TRUE, data |-> <<Comment, NL, Ent(H22, K1)>>],
    [exists |-> TRUE, data |-> <<Ent(H22, E1), NL, Ent(H2222, K2), NL>>] }

\* A nil *ssh.Client or *ssh.Session; an open one is the number of the dial
\* that made it.
NilPtr == 0

\* The command as Command returns it (lines 73-82): client and sess are nil.
NewCommand(signers, user, command) ==
  [signers |-> signers, user |-> user, command |-> command,
   client |-> NilPtr, sess |-> NilPtr]

NoCall == [op |-> "none", prev |-> "none", err |-> Nil, before |-> NewCommand(1, "", "")]

\* A command on which no method is called.
CommandIdle ==
  /\ cmd = NewCommand(1, "ubuntu", "uptime")
  /\ ret = NoCall
  /\ dials = 0

Init ==
  /\ CommandIdle
  /\ knownHosts \in InitialFiles
  /\ mutexHolder = Free
  /\ calls = 0
  /\ pc = [p \in Procs |-> "idle"]
  /\ cb = [p \in Procs |-> IdleFrame]
  /\ hist = [p \in Procs |-> IdleHist]
  /\ store0 = knownHosts
  /\ added = <<>>

\* ---------------------------------------------------------------- helpers
\* Mutant of cleanupTerm: the terminal is left as it is.
cleanupTermKeepsMode(raw) == raw

\* terminal.Restore run by the deferred cleanupTerm (lines 273, 389).
cleanupTerm(raw) == FALSE

\* Mutant of Release: the mutex is not given back.
ReleaseLeak(holder, p) == holder

\* releaser.Release run by the defer of line 351.
Release(holder, p) == IF holder = HeldBy(p) THEN Free ELSE holder

\* hostKeyCallback returns e: the deferred calls run.
Return(p, e) ==
  /\ pc' = [pc EXCEPT ![p] = "done"]
  /\ cb' = [cb EXCEPT ![p].err = e, ![p].raw = cleanupTerm(cb[p].raw)]
  /\ mutexHolder' = Release(mutexHolder, p)

\* Mutant of PersistError: a failure of the persist block is not returned.
PersistErrorSwallowed(err) == Nil

\* Lines 348-350, 356-358 and 365-367: an error of mutex.Acquire, of
\* ioutil.ReadFile (other than "not exist") or of utils.AtomicWriteFile is
\* returned by hostKeyCallback as it is (errors.Trace keeps it non-nil).
PersistError(err) == err

\* printError (lines 274-282): on a terminal the write may fail, the log
\* sink never fails.
printError(term) == IF term = "tty" THEN {Nil, "write failed"} ELSE {Nil}

\* fmt.Fprint(term, ...) of lines 315 and 328: the results of a write to the
\* terminal.
Fprint(term) == {Nil, "write failed"}

\* ---------------------------------------------------------------- actions
\* hostKeyCallback, lines 259-283: resolve the known-hosts path, get the
\* terminal. path is c.knownHostsFile or, when that is empty, the value of
\* GoCryptoKnownHostsFile(); t is what getTerminal finds: a terminal (put
\* in raw mode), no terminal, or an error of MakeRaw.
hostKeyCallback(p, hostname, key, path, strict, t) ==
  /\ UNCHANGED cmdVars
  /\ pc[p] = "idle"
  /\ calls < MaxCalls
  /\ calls' = calls + 1
  /\ hist' = [hist EXCEPT ![p] = [IdleHist EXCEPT !.before = knownHosts,
                                                   !.ioerr = (path # "" /\ t = "error")]]
  /\ UNCHANGED <<knownHosts, store0, added>>
  /\ LET frame == [IdleFrame EXCEPT !.hostname = hostname, !.key = key,
                                    !.knownHostsFile = path,
                                    !.strictHostKeyChecking = strict] IN
     IF path = ""
     THEN /\ pc' = [pc EXCEPT ![p] = "done"]
          /\ cb' = [cb EXCEPT ![p] = [frame EXCEPT !.err = ErrNotConfigured]]
          /\ UNCHANGED mutexHolder
     ELSE IF t = "error"
     THEN /\ pc' = [pc EXCEPT ![p] = "done"]
          /\ cb' = [cb EXCEPT ![p] = [frame EXCEPT !.err = ErrTerminal]]
          /\ UNCHANGED mutexHolder
     ELSE /\ pc' = [pc EXCEPT ![p] = "checkHostKey"]
          /\ cb' = [cb EXCEPT ![p] = [frame EXCEPT !.term = t, !.raw = (t = "tty")]]
          /\ UNCHANGED mutexHolder

\* One verification at a time, with every configuration. Which process
\* runs it makes no difference, so the first one does.
Start(p) ==
  /\ \A q \in Procs : p <= q
  /\ \E hostname \in Hostnames, key \in PublicKeys,
        path \in {"", KnownHostsPath, DevNull},
        strict \in Policies, t \in {"tty", "none", "error"} :
       hostKeyCallback(p, hostname, key, path, strict, t)

\* Verifications that overlap in time: all use the shared store file and
\* the policy that adds an unknown key without asking.
StartConcurrent(p) ==
  \E hostname \in Hostnames, key \in {K1, K2} :
    hostKeyCallback(p, hostname, key, KnownHostsPath, StrictHostChecksNo, "tty")

\* Mutant of checkHostKeyResult: the error of a changed key is dropped once
\* the warning is printed.
checkHostKeyResultNilOnChanged(callbackErr, want) ==
  [matched |-> callbackErr = Nil, err |-> Nil]

\* checkHostKey's results (lines 418-475) once the warning, if any, has been
\* printed: (true, nil) for a match, (false, nil) for an unknown host, and
\* for a known host with another key the callback's error, which line 475
\* returns (the switch of line 419 binds a new err; the outer one is kept).
checkHostKeyResult(callbackErr, want) ==
  IF callbackErr = Nil THEN [matched |-> TRUE, err |-> Nil]
  ELSE IF Len(want) = 0 THEN [matched |-> FALSE, err |-> Nil]
  ELSE [matched |-> FALSE, err |-> ErrKeyMismatch]

\* Mutants of ReturnsAfterCheck: only the error, or only the match, ends
\* the callback.
ReturnsAfterCheckErrOnly(res) == res.err # Nil
ReturnsAfterCheckMatchedOnly(res) == res.matched

\* Line 286: hostKeyCallback returns errors.Trace(err) right after
\* checkHostKey when there is an error or a match.
ReturnsAfterCheck(res) == res.err # Nil \/ res.matched

\* Mutant of WarningTail: the loop stops at the first known key of the
\* offered type.
WarningTailFirstOfType(want, key) ==
  LET same == {i \in 1..Len(want) : want[i].type = key.type} IN
  IF same # {}
  THEN [kind |-> "offending",
        keys |-> <<want[CHOOSE i \in same : \A j \in same : i <= j]>>]
  ELSE [kind |-> "algorithms", keys |-> want]

\* Lines 441-466: the tail of the warning. typeKey is the last known key of
\* the offered type; without one, every known key is listed.
WarningTail(want, key) ==
  LET same == {i \in 1..Len(want) : want[i].type = key.type} IN
  IF same # {}
  THEN [kind |-> "offending",
        keys |-> <<want[CHOOSE i \in same : \A j \in same : j <= i]>>]
  ELSE [kind |-> "algorithms", keys |-> want]

\* What knownhosts.New reads at the path: os.DevNull reads as an empty file.
StoreAt(path) == IF path = DevNull THEN [exists |-> TRUE, data |-> <<>>] ELSE knownHosts

\* checkHostKey fails to load the store (line 416).
checkHostKeyLoadError(p) ==
  /\ UNCHANGED cmdVars
  /\ pc[p] = "checkHostKey"
  /\ cb[p].knownHostsFile = KnownHostsPath
  /\ knownHosts.exists
  /\ hist' = [hist EXCEPT ![p].outcome = "LoadError", ![p].ioerr = TRUE]
  /\ Return(p, ErrLoad)
  /\ UNCHANGED <<knownHosts, calls, store0, added>>

\* checkHostKey, lines 398-476, and the return of line 286-288.
checkHostKey(p) ==
  /\ UNCHANGED cmdVars
  /\ pc[p] = "checkHostKey"
  /\ UNCHANGED <<knownHosts, calls, store0, added>>
  /\ LET c == cb[p]
         store == StoreAt(c.knownHostsFile)
     IN
     IF ~store.exists
     THEN \* lines 412-415: no file, no match
          /\ hist' = [hist EXCEPT ![p].outcome = "Unknown"]
          /\ pc' = [pc EXCEPT ![p] = "decide"]
          /\ UNCHANGED <<cb, mutexHolder>>
     ELSE LET r == KnownHostsCallback(store.data, c.hostname, c.key)
              res == checkHostKeyResult(r.err, r.want)
              outcome == IF r.err = Nil THEN "Matched"
                         ELSE IF Len(r.want) = 0 THEN "Unknown" ELSE "Changed"
          IN
          IF outcome = "Changed"
          THEN \E pe \in printError(c.term) :
                 /\ hist' = [hist EXCEPT ![p].outcome = outcome,
                                         ![p].warning = WarningTail(r.want, c.key),
                                         ![p].ioerr = (pe # Nil)]
                 /\ IF pe # Nil
                    THEN Return(p, ErrPrintWarning)
                    ELSE IF ReturnsAfterCheck(res)
                         THEN Return(p, res.err)
                         ELSE /\ pc' = [pc EXCEPT ![p] = "decide"]
                              /\ UNCHANGED <<cb, mutexHolder>>
          ELSE /\ hist' = [hist EXCEPT ![p].outcome = outcome]
               /\ IF ReturnsAfterCheck(res)
                  THEN Return(p, res.err)
                  ELSE /\ pc' = [pc EXCEPT ![p] = "decide"]
                       /\ UNCHANGED <<cb, mutexHolder>>

\* Mutants of PolicyBranch: StrictHostChecksYes handled like
\* StrictHostChecksNo; the terminal not checked before prompting.
PolicyBranchYesAdds(strict, term) ==
  IF strict \in {StrictHostChecksNo, StrictHostChecksYes} THEN "add"
  ELSE IF term = "none" THEN "noterm" ELSE "prompt"
PolicyBranchNoTermCheck(strict, term) ==
  IF strict = StrictHostChecksNo THEN "add"
  ELSE IF strict \in {StrictHostChecksDefault, StrictHostChecksAsk} THEN "prompt"
       ELSE "strict"

\* The switch on c.strictHostKeyChecking, lines 293-339, up to the prompt.
PolicyBranch(strict, term) ==
  IF strict = StrictHostChecksNo THEN "add"
  ELSE IF strict \in {StrictHostChecksDefault, StrictHostChecksAsk}
       THEN IF term = "none" THEN "noterm" ELSE "prompt"
       ELSE "strict"

Decide(p) ==
  /\ UNCHANGED cmdVars
  /\ pc[p] = "decide"
  /\ UNCHANGED <<knownHosts, calls, store0, added>>
  /\ LET branch == PolicyBranch(cb[p].strictHostKeyChecking, cb[p].term) IN
     CASE branch = "add" ->
            /\ pc' = [pc EXCEPT ![p] = "persist"]
            /\ cb' = [cb EXCEPT ![p].warnAdd = TRUE]
            /\ UNCHANGED <<hist, mutexHolder>>
       [] branch = "noterm" ->
            /\ Return(p, ErrNoTerminal)
            /\ UNCHANGED hist
       [] branch = "prompt" ->
            \* line 315: the prompt is written, the result of the write is dropped
            \E we \in Fprint(cb[p].term) :
              /\ pc' = [pc EXCEPT ![p] = "prompt"]
              /\ hist' = [hist EXCEPT ![p].prompts = 1]
              /\ UNCHANGED <<cb, mutexHolder>>
       [] OTHER ->
            /\ Return(p, ErrStrict)
            /\ UNCHANGED hist

\* strings.ToLower on the characters the model uses.
LowerChar(ch) ==
  CASE ch = "Y" -> "y" [] ch = "E" -> "e" [] ch = "S" -> "s"
    [] ch = "N" -> "n" [] ch = "O" -> "o" [] OTHER -> ch

\* Mutant of ToLower: the line is compared as typed.
ToLowerIdentity(line) == line

ToLower(line) == [i \in 1..Len(line) |-> LowerChar(line[i])]

\* The switch of lines 322-329.
Answer(line) ==
  LET low == ToLower(line) IN
  IF low = LineYes THEN "yes" ELSE IF low = LineNo THEN "no" ELSE "again"

\* One pass of the loop of lines 316-333: a line is read and answered.
ReadLine(p) ==
  /\ UNCHANGED cmdVars
  /\ pc[p] = "prompt"
  /\ Len(hist[p].lines) < MaxLines
  /\ UNCHANGED <<knownHosts, calls, store0, added>>
  /\ \E line \in Lines :
       /\ LET a == Answer(line) IN
          CASE a = "yes" ->
                 /\ pc' = [pc EXCEPT ![p] = "persist"]
                 /\ hist' = [hist EXCEPT ![p].lines = Append(@, line)]
                 /\ UNCHANGED <<cb, mutexHolder>>
            [] a = "no" ->
                 /\ hist' = [hist EXCEPT ![p].lines = Append(@, line)]
                 /\ Return(p, ErrUserNo)
            [] OTHER ->
                 \* line 328: asked again, the result of the write is dropped
                 \E we \in Fprint(cb[p].term) :
                   /\ hist' = [hist EXCEPT ![p].lines = Append(@, line),
                                           ![p].prompts = @ + 1]
                   /\ UNCHANGED <<pc, cb, mutexHolder>>

\* term.ReadLine fails (lines 318-320).
ReadLineError(p) ==
  /\ UNCHANGED cmdVars
  /\ pc[p] = "prompt"
  /\ hist' = [hist EXCEPT ![p].ioerr = TRUE]
  /\ Return(p, ErrReadLine)
  /\ UNCHANGED <<knownHosts, calls, store0, added>>

\* Mutant of FinalResult: the result of printing the warning is returned.
FinalResultPrintErr(warnAdd, printErr) == IF warnAdd THEN printErr ELSE Nil

\* Lines 369-375: the "permanently added" warning goes through printError
\* and its result is dropped; hostKeyCallback returns nil.
FinalResult(warnAdd, printErr) == Nil

\* Mutant of PersistsTo: the persist block runs for every path.
PersistsToAnyPath(knownHostsFile) == TRUE

\* The test of line 341: the persist block runs unless the path is
\* os.DevNull.
PersistsTo(knownHostsFile) == knownHostsFile # DevNull

\* Line 341 with the path os.DevNull: nothing is persisted.
SkipPersist(p) ==
  /\ UNCHANGED cmdVars
  /\ pc[p] = "persist"
  /\ ~PersistsTo(cb[p].knownHostsFile)
  /\ \E pe \in printError(cb[p].term) :
       /\ hist' = [hist EXCEPT ![p].dropped = IF cb[p].warnAdd /\ pe # Nil THEN "added" ELSE @]
       /\ Return(p, FinalResult(cb[p].warnAdd, pe))
  /\ UNCHANGED <<knownHosts, calls, store0, added>>

\* Mutant of MutexAvailable: the mutex excludes nobody.
MutexAvailableAlways(holder) == TRUE

\* mutex.Acquire with Spec{Name, Clock, Delay: time.Second} (lines 343-347):
\* no Timeout and no Cancel are given, so the call polls every Delay until
\* the mutex is free.
MutexAvailable(holder) == holder = Free

Acquire(p) ==
  /\ UNCHANGED cmdVars
  /\ pc[p] = "persist"
  /\ PersistsTo(cb[p].knownHostsFile)
  /\ MutexAvailable(mutexHolder)
  /\ mutexHolder' = HeldBy(p)
  /\ pc' = [pc EXCEPT ![p] = "readFile"]
  /\ hist' = [hist EXCEPT ![p].acquired = TRUE]
  /\ UNCHANGED <<knownHosts, calls, cb, store0, added>>

\* mutex.Acquire returns an error (lines 348-350).
AcquireError(p) ==
  /\ UNCHANGED cmdVars
  /\ pc[p] = "persist"
  /\ PersistsTo(cb[p].knownHostsFile)
  /\ hist' = [hist EXCEPT ![p].ioerr = TRUE]
  /\ Return(p, PersistError(ErrMutex))
  /\ UNCHANGED <<knownHosts, calls, store0, added>>

\* Mutant of ReadFileData: the content seen when the callback started is
\* used instead of the content read under the mutex.
ReadFileDataStale(p) == hist[p].before.data

\* Mutant of ReadFileData: the content read is not used, the file is
\* written anew.
ReadFileDataNone(p) == <<>>

\* ioutil.ReadFile, lines 355-358: a missing file reads as no data.
ReadFileData(p) == IF knownHosts.exists THEN knownHosts.data ELSE <<>>

ReadFile(p) ==
  /\ UNCHANGED cmdVars
  /\ pc[p] = "readFile"
  /\ pc' = [pc EXCEPT ![p] = "writeFile"]
  /\ cb' = [cb EXCEPT ![p].knownHostsData = ReadFileData(p)]
  /\ UNCHANGED <<knownHosts, calls, hist, mutexHolder, store0, added>>

ReadFileError(p) ==
  /\ UNCHANGED cmdVars
  /\ pc[p] = "readFile"
  /\ knownHosts.exists
  /\ hist' = [hist EXCEPT ![p].ioerr = TRUE]
  /\ Return(p, PersistError(ErrReadFile))
  /\ UNCHANGED <<knownHosts, calls, store0, added>>

\* Mutants of AppendLine: no newline is put between the old content and the
\* new line; a newline is put before the new line whatever the old content.
AppendLineNoSeparator(knownHostsData, line) == knownHostsData \o <<line, NL>>
AppendLineAlwaysSeparator(knownHostsData, line) == knownHostsData \o <<NL, line, NL>>

\* Mutant of AppendLine: the content read under the mutex is looked up
\* again, and a line it already holds is not added.
AppendLineIfAbsent(knownHostsData, line) ==
  IF \E i \in 1..Len(knownHostsData) : knownHostsData[i] = line
  THEN knownHostsData
  ELSE LET sep == IF Len(knownHostsData) > 0 /\ knownHostsData[Len(knownHostsData)] # NL
                  THEN <<NL>> ELSE <<>>
       IN knownHostsData \o sep \o <<line, NL>>

\* Lines 359-364: the new content of the file.
AppendLine(knownHostsData, line) ==
  LET sep == IF Len(knownHostsData) > 0 /\ knownHostsData[Len(knownHostsData)] # NL
             THEN <<NL>> ELSE <<>>
  IN knownHostsData \o sep \o <<line, NL>>

\* utils.AtomicWriteFile: the file is replaced by the whole new content.
AtomicWriteFile(data) == [exists |-> TRUE, data |-> data]

\* Lines 365-375: the file is written and hostKeyCallback returns nil.
WriteFile(p) ==
  /\ UNCHANGED cmdVars
  /\ pc[p] = "writeFile"
  /\ knownHosts' = AtomicWriteFile(
                     AppendLine(cb[p].knownHostsData,
                                KnownHostsLine(cb[p].hostname, cb[p].key)))
  /\ added' = Append(added, KnownHostsLine(cb[p].hostname, cb[p].key))
  /\ \E pe \in printError(cb[p].term) :
       /\ hist' = [hist EXCEPT ![p].wrote = TRUE,
                               ![p].dropped = IF cb[p].warnAdd /\ pe # Nil THEN "added" ELSE @]
       /\ Return(p, FinalResult(cb[p].warnAdd, pe))
  /\ UNCHANGED <<calls, store0>>

\* utils.AtomicWriteFile fails (lines 365-367): the file is as it was.
WriteFileError(p) ==
  /\ UNCHANGED cmdVars
  /\ pc[p] = "writeFile"
  /\ hist' = [hist EXCEPT ![p].ioerr = TRUE]
  /\ Return(p, PersistError(ErrWriteFile))
  /\ UNCHANGED <<knownHosts, calls, store0, added>>

\* The transport has taken the result; the verification may run again.
Finish(p) ==
  /\ UNCHANGED cmdVars
  /\ pc[p] = "done"
  /\ pc' = [pc EXCEPT ![p] = "idle"]
  /\ cb' = [cb EXCEPT ![p] = IdleFrame]
  /\ hist' = [hist EXCEPT ![p] = IdleHist]
  /\ UNCHANGED <<knownHosts, calls, mutexHolder, store0, added>>

\* Another user of the "juju-ssh-client" mutex takes it and gives it back.
OtherAcquire ==
  /\ UNCHANGED cmdVars
  /\ MutexAvailable(mutexHolder)
  /\ mutexHolder' = Other
  /\ UNCHANGED <<knownHosts, calls, pc, cb, hist, store0, added>>

OtherRelease ==
  /\ UNCHANGED cmdVars
  /\ mutexHolder = Other
  /\ mutexHolder' = Free
  /\ UNCHANGED <<knownHosts, calls, pc, cb, hist, store0, added>>

\* The steps of a started verification that do not depend on a failure of
\* the environment.
Step(p) ==
  \/ checkHostKey(p)
  \/ Decide(p)
  \/ ReadLine(p)
  \/ SkipPersist(p)
  \/ Acquire(p)
  \/ ReadFile(p)
  \/ WriteFile(p)
  \/ Finish(p)

\* The steps in which the environment fails.
Fail(p) ==
  \/ checkHostKeyLoadError(p)
  \/ ReadLineError(p)
  \/ AcquireError(p)
  \/ ReadFileError(p)
  \/ WriteFileError(p)

Next ==
  \/ \E p \in Procs : Start(p) \/ Step(p) \/ Fail(p)
  \/ OtherAcquire
  \/ OtherRelease

Spec == Init /\ [][Next]_vars

\* Concurrent verifications against one store file.
ConcNext ==
  \E p \in Procs :
    \/ StartConcurrent(p)
    \/ checkHostKey(p)
    \/ Decide(p)
    \/ Acquire(p)
    \/ ReadFile(p)
    \/ WriteFile(p)
    \/ Finish(p)
    \/ checkHostKeyLoadError(p)
    \/ AcquireError(p)
    \/ ReadFileError(p)
    \/ WriteFileError(p)

ConcSpec == Init /\ [][ConcNext]_vars

\* Store files with up to MaxRecords records, one per line: several keys
\* of one type and keys of several types for one hostname, and lines of
\* another hostname between them.
WarnEntries == {Ent(H22, K1), Ent(H22, K2), Ent(H22, E1), Ent(H2222, K2)}
WarnFiles ==
  { [exists |-> TRUE,
     data |-> [i \in 1..(2 * Len(s)) |-> IF i % 2 = 1 THEN s[(i + 1) \div 2] ELSE NL]] :
    s \in UNION {[1..n -> WarnEntries] : n \in 0..MaxRecords} }

WarnInit ==
  /\ CommandIdle
  /\ knownHosts \in WarnFiles
  /\ mutexHolder = Free
  /\ calls = 0
  /\ pc = [p \in Procs |-> "idle"]
  /\ cb = [p \in Procs |-> IdleFrame]
  /\ hist = [p \in Procs |-> IdleHist]
  /\ store0 = knownHosts
  /\ added = <<>>

\* Verifications under StrictHostChecksYes: they classify the key, print the
\* warning for a changed key and never persist.
StartStrict(p) ==
  /\ \A q \in Procs : p <= q
  /\ \E hostname \in Hostnames, key \in PublicKeys, t \in {"tty", "none"} :
       hostKeyCallback(p, hostname, key, KnownHostsPath, StrictHostChecksYes, t)

WarnNext ==
  \E p \in Procs :
    \/ StartStrict(p)
    \/ checkHostKey(p)
    \/ Decide(p)
    \/ Finish(p)

WarnSpec == WarnInit /\ [][WarnNext]_vars

\* Under fair scheduling a verification takes the steps it can take; the
\* environment's failures, the starts and the other holder of the mutex
\* are not forced.
FairSpec == Spec /\ \A p \in Procs : WF_vars(Step(p))

\* ------------------------------------------------- the command's session
\* Error values returned by the methods of goCryptoCommand.
ErrNoKeys == "no private keys available"
ErrCurrentUser == "getting current user"
ErrDial == "sshDialWithProxy failed"
ErrNewSession == "client.NewSession failed"
ErrNotStarted == "command has not been started"
ErrSessStart == "sess.Start failed"
ErrSessWait == "sess.Wait failed"
ErrSignal == "sess.Signal failed"
ErrPipe == "sess pipe failed"
ErrSessClose == "sess.Close failed"
ErrClientClose == "client.Close failed"

\* user.Current().Username.
CurrentUser == "ubuntu"

\* ensureSession, lines 144-183, on the command c; id is the number of the
\* connection it dials, when it dials. The results: the command after the
\* call, the error returned, and whether a connection was dialled. When
\* NewSession fails the client is closed and the fields stay nil.
ensureSession(c, id) ==
  IF c.sess # NilPtr THEN {[c |-> c, err |-> Nil, dialled |-> FALSE]}
  ELSE IF c.signers = 0 THEN {[c |-> c, err |-> ErrNoKeys, dialled |-> FALSE]}
  ELSE LET known == [c EXCEPT !.user = IF @ = "" THEN CurrentUser ELSE @] IN
       (IF c.user = "" THEN {[c |-> c, err |-> ErrCurrentUser, dialled |-> FALSE]} ELSE {})
       \cup {[c |-> known, err |-> ErrDial, dialled |-> TRUE],
             [c |-> known, err |-> ErrNewSession, dialled |-> TRUE],
             [c |-> [known EXCEPT !.client = id, !.sess = id], err |-> Nil, dialled |-> TRUE]}

\* A method has returned err; before is the command as the method found it.
Returned(op, err, before) ==
  ret' = [op |-> op, prev |-> ret.op, err |-> err, before |-> before]

\* A method that starts with ensureSession and then calls the session; the
\* call of the session returns nil or sessErr.
WithSession(op, sessErr) ==
  /\ UNCHANGED hkVars
  /\ \E r \in ensureSession(cmd, dials + 1) :
       /\ r.dialled => dials < MaxDials
       /\ dials' = IF r.dialled THEN dials + 1 ELSE dials
       /\ cmd' = r.c
       /\ IF r.err # Nil
          THEN Returned(op, r.err, cmd)
          ELSE \E e \in {Nil, sessErr} : Returned(op, e, cmd)

\* Start, lines 185-194: sess.Shell() without a command, else sess.Start.
CommandStart == WithSession("Start", ErrSessStart)

\* StdinPipe, StdoutPipe, StderrPipe, lines 232-257.
StdinPipe == WithSession("StdinPipe", ErrPipe)
StdoutPipe == WithSession("StdoutPipe", ErrPipe)
StderrPipe == WithSession("StderrPipe", ErrPipe)

\* Mutant of ClearSession: the client field is left as it is.
ClearSessionOnly(c) == [c EXCEPT !.sess = NilPtr]

\* Lines 205-206: c.sess = nil, c.client = nil.
ClearSession(c) == [c EXCEPT !.sess = NilPtr, !.client = NilPtr]

\* Close, lines 196-208, on the command c: the command after the call and
\* the error returned (the session's, else the client's).
CloseOutcomes(c) ==
  IF c.sess = NilPtr THEN {[c |-> c, err |-> Nil]}
  ELSE {[c |-> ClearSession(c), err |-> IF err0 = Nil THEN err1 ELSE err0] :
          err0 \in {Nil, ErrSessClose}, err1 \in {Nil, ErrClientClose}}

Close ==
  /\ UNCHANGED <<hkVars, dials>>
  /\ \E r \in CloseOutcomes(cmd) :
       /\ cmd' = r.c
       /\ Returned("Close", r.err, cmd)

\* Wait, lines 210-217: the result of sess.Wait is returned, the result of
\* c.Close() is dropped.
Wait ==
  /\ UNCHANGED <<hkVars, dials>>
  /\ IF cmd.sess = NilPtr
     THEN /\ Returned("Wait", ErrNotStarted, cmd)
          /\ UNCHANGED cmd
     ELSE \E err \in {Nil, ErrSessWait}, r \in CloseOutcomes(cmd) :
            /\ cmd' = r.c
            /\ Returned("Wait", err, cmd)

\* Kill, lines 219-224.
Kill ==
  /\ UNCHANGED <<hkVars, dials, cmd>>
  /\ IF cmd.sess = NilPtr
     THEN Returned("Kill", ErrNotStarted, cmd)
     ELSE \E err \in {Nil, ErrSignal} : Returned("Kill", err, cmd)

\* A command as Command builds it from the client's signers, the user of
\* the host string and the command line; no verification runs.
CmdInit ==
  /\ cmd \in {NewCommand(signers, user, command) :
                signers \in {0, 1}, user \in {"", CurrentUser}, command \in {"", "uptime"}}
  /\ ret = NoCall
  /\ dials = 0
  /\ knownHosts = [exists |-> FALSE, data |-> <<>>]
  /\ mutexHolder = Free
  /\ calls = 0
  /\ pc = [p \in Procs |-> "idle"]
  /\ cb = [p \in Procs |-> IdleFrame]
  /\ hist = [p \in Procs |-> IdleHist]
  /\ store0 = knownHosts
  /\ added = <<>>

CmdNext ==
  \/ CommandStart
  \/ StdinPipe
  \/ StdoutPipe
  \/ StderrPipe
  \/ Wait
  \/ Kill
  \/ Close

CmdSpec == CmdInit /\ [][CmdNext]_vars

\* ----------------------------------------------------------------- claims
Done(p) == pc[p] = "done"
Accepted(p) == Done(p) /\ cb[p].err = Nil
Rejected(p) == Done(p) /\ cb[p].err # Nil
AskPolicy(p) ==
  cb[p].strictHostKeyChecking \in {StrictHostChecksDefault, StrictHostChecksAsk}

\* The lookup of checkHostKey has run and has read the store.
LookedUp(p) == hist[p].outcome \in {"Matched", "Unknown", "Changed"}

\* The store holds an entry for (hostname, key).
HasRecord(data, hostname, key) ==
  \E i \in 1..Len(data) : IsEntry(data, i) /\ data[i] = KnownHostsLine(hostname, key)

\* The store holds an entry for the hostname, of any key type.
HostKnown(data, hostname) ==
  \E i \in 1..Len(data) : IsEntry(data, i) /\ data[i].hosts = Normalize(hostname)

\* The store as the invocation found it (one verification at a time).
StoreBefore(p) ==
  IF cb[p].knownHostsFile = DevNull THEN <<>> ELSE hist[p].before.data
RecordBefore(p) == HasRecord(StoreBefore(p), cb[p].hostname, cb[p].key)
HostBefore(p) == HostKnown(StoreBefore(p), cb[p].hostname)

\* The invocation has not touched the mutex, the file or the terminal input.
NoEffect(p) ==
  /\ ~hist[p].acquired
  /\ ~hist[p].wrote
  /\ hist[p].lines = <<>>
  /\ mutexHolder # HeldBy(p)
  /\ knownHosts = hist[p].before

\* The entry lines of a file content, in order.
Entries(data) == SelectSeq(data, LAMBDA t : t.kind = "entry")

\* after is before plus exactly one line, the given one, on a line of its own.
GainedOneLine(fileBefore, fileAfter, line) ==
  /\ fileAfter.exists
  /\ Entries(fileAfter.data) = Append(Entries(fileBefore.data), line)
  /\ IsEntry(fileAfter.data, Len(fileAfter.data) - 1)
  /\ fileAfter.data[Len(fileAfter.data) - 1] = line

\* All spellings of "yes" and of "no".
YesLines == { <<a, b, c>> : a \in {"y", "Y"}, b \in {"e", "E"}, c \in {"s", "S"} }
NoLines == { <<a, b>> : a \in {"n", "N"}, b \in {"o", "O"} }

\* C1: when the store holds a record for the offered (hostname, type, key),
\* the invocation takes no mutex, writes no file and reads no line, under
\* every policy, and once the lookup has run it has returned accept.
C1_MatchedAcceptsWithoutEffect ==
  \A p \in Procs :
    (pc[p] # "idle" /\ RecordBefore(p)) =>
      /\ NoEffect(p)
      /\ hist[p].prompts = 0
      /\ LookedUp(p) => (hist[p].outcome = "Matched" /\ Accepted(p))

C1_Witness ==
  \E p \in Procs :
    /\ Accepted(p)
    /\ hist[p].outcome = "Matched"
    /\ cb[p].strictHostKeyChecking = StrictHostChecksYes
    /\ cb[p].hostname = H2222
    /\ Len(hist[p].before.data) = 4

\* C2: under StrictHostChecksYes a key that is not in the store is
\* rejected, with or without a terminal, with no prompt, no line read, no
\* mutex taken and the file as it was.
C2_StrictRejectsAbsent ==
  \A p \in Procs :
    (cb[p].strictHostKeyChecking = StrictHostChecksYes /\ LookedUp(p) /\ ~RecordBefore(p)) =>
      /\ pc[p] \in {"decide", "done"}
      /\ Done(p) => cb[p].err \in {ErrStrict, ErrKeyMismatch, ErrPrintWarning}
      /\ hist[p].prompts = 0
      /\ NoEffect(p)

C2_Witness ==
  \E p \in Procs :
    /\ Rejected(p)
    /\ cb[p].err = ErrStrict
    /\ cb[p].strictHostKeyChecking = StrictHostChecksYes
    /\ cb[p].term = "tty"
    /\ hist[p].outcome = "Unknown"
    /\ hist[p].before.exists

\* C3 as stated: under StrictHostChecksNo every key absent from the store,
\* unknown host or changed key, is accepted without a prompt and the file
\* gains exactly one line (no failure of the environment, path not DevNull).
C3_AsStated ==
  \A p \in Procs :
    (/\ Done(p)
     /\ cb[p].strictHostKeyChecking = StrictHostChecksNo
     /\ cb[p].knownHostsFile = KnownHostsPath
     /\ LookedUp(p) /\ ~RecordBefore(p)
     /\ ~hist[p].ioerr) =>
      /\ Accepted(p)
      /\ hist[p].prompts = 0
      /\ GainedOneLine(hist[p].before, knownHosts, KnownHostsLine(cb[p].hostname, cb[p].key))

\* C3 as amended: under StrictHostChecksNo, with no failure of the
\* environment and a path that is not DevNull, a key of a host without any
\* record is accepted without a prompt and the file gains exactly one line,
\* whether it was missing, empty or not; a key of a host that has a record
\* with another key is rejected with the key-mismatch error once the warning
\* is printed, and the file is as it was.
C3_NoPolicyAddsUnknownRejectsChanged ==
  \A p \in Procs :
    (/\ Done(p)
     /\ cb[p].strictHostKeyChecking = StrictHostChecksNo
     /\ cb[p].knownHostsFile = KnownHostsPath
     /\ LookedUp(p) /\ ~RecordBefore(p)
     /\ ~hist[p].ioerr) =>
      IF HostBefore(p)
      THEN /\ cb[p].err = ErrKeyMismatch
           /\ hist[p].warning.kind # "none"
           /\ hist[p].prompts = 0
           /\ NoEffect(p)
      ELSE /\ Accepted(p)
           /\ hist[p].prompts = 0
           /\ hist[p].lines = <<>>
           /\ GainedOneLine(hist[p].before, knownHosts,
                            KnownHostsLine(cb[p].hostname, cb[p].key))

C3_Witness ==
  \E p \in Procs :
    /\ Rejected(p)
    /\ cb[p].strictHostKeyChecking = StrictHostChecksNo
    /\ cb[p].knownHostsFile = KnownHostsPath
    /\ HostBefore(p) /\ ~RecordBefore(p)
    /\ cb[p].err = ErrKeyMismatch
    /\ hist[p].warning.kind = "offending"

\* C4 as stated: for a changed key under the default or ask policy with a
\* terminal, once the warning is printed the verification goes on to the
\* yes/no prompt.
C4_AsStated ==
  \A p \in Procs :
    (/\ Done(p)
     /\ AskPolicy(p)
     /\ cb[p].term = "tty"
     /\ LookedUp(p) /\ HostBefore(p) /\ ~RecordBefore(p)
     /\ ~hist[p].ioerr) =>
      hist[p].prompts >= 1

\* C4 as amended: for a changed key under the default or ask policy with a
\* terminal, the warning is printed and the callback rejects at once (with
\* the key-mismatch error, or with the print error when the warning cannot
\* be written): no prompt is written, no line is read, nothing is persisted.
C4_ChangedWarnsAndRejects ==
  \A p \in Procs :
    (/\ AskPolicy(p)
     /\ cb[p].term = "tty"
     /\ LookedUp(p) /\ HostBefore(p) /\ ~RecordBefore(p)) =>
      /\ Rejected(p)
      /\ cb[p].err = IF hist[p].ioerr THEN ErrPrintWarning ELSE ErrKeyMismatch
      /\ hist[p].outcome = "Changed"
      /\ hist[p].warning.kind # "none"
      /\ hist[p].prompts = 0
      /\ NoEffect(p)

C4_Witness ==
  \E p \in Procs :
    /\ Rejected(p)
    /\ cb[p].strictHostKeyChecking = StrictHostChecksAsk
    /\ cb[p].term = "tty"
    /\ hist[p].outcome = "Changed"
    /\ cb[p].err = ErrKeyMismatch
    /\ hist[p].warning.kind = "algorithms"

\* C5: under the default or ask policy without a terminal, a key that is
\* not matched is rejected: the verification never waits for a line, never
\* takes the mutex and never writes the file.
C5_AskWithoutTerminalRejects ==
  \A p \in Procs :
    (AskPolicy(p) /\ cb[p].term = "none" /\ LookedUp(p) /\ ~RecordBefore(p)) =>
      /\ pc[p] \in {"decide", "done"}
      /\ Done(p) => Rejected(p)
      /\ hist[p].prompts = 0
      /\ NoEffect(p)

C5_Witness ==
  \E p \in Procs :
    /\ Rejected(p)
    /\ cb[p].strictHostKeyChecking = StrictHostChecksDefault
    /\ cb[p].term = "none"
    /\ hist[p].outcome = "Unknown"
    /\ cb[p].err = ErrNoTerminal

\* C6: for an unknown key under the default or ask policy with a terminal,
\* the prompt is left only by a line that is "yes" or "no" in any case, or
\* by a read error; every other line is answered by a new prompt; "no"
\* rejects; "yes" goes on to persist, and accept comes only after the record
\* is written (or the path is DevNull). Without a "yes" there is no accept.
C6_PromptLoop ==
  \A p \in Procs :
    (AskPolicy(p) /\ cb[p].term = "tty" /\ hist[p].outcome = "Unknown") =>
      LET ls == hist[p].lines
          n == Len(ls)
          other(l) == l \notin YesLines /\ l \notin NoLines
      IN
      /\ \A i \in 1..(n - 1) : other(ls[i])
      /\ pc[p] = "decide" => (n = 0 /\ hist[p].prompts = 0)
      /\ pc[p] = "prompt" => ((n = 0 \/ other(ls[n])) /\ hist[p].prompts = n + 1)
      /\ pc[p] \in {"persist", "readFile", "writeFile"} => (n > 0 /\ ls[n] \in YesLines)
      /\ Done(p) =>
           \/ cb[p].err = ErrReadLine /\ (n = 0 \/ other(ls[n]))
           \/ cb[p].err = ErrUserNo /\ n > 0 /\ ls[n] \in NoLines /\ ~hist[p].wrote
           \/ /\ n > 0 /\ ls[n] \in YesLines
              /\ cb[p].err \in {Nil, ErrMutex, ErrReadFile, ErrWriteFile}
              /\ cb[p].err = Nil => (hist[p].wrote \/ cb[p].knownHostsFile = DevNull)

C6_Witness ==
  \E p \in Procs :
    /\ Accepted(p)
    /\ cb[p].strictHostKeyChecking = StrictHostChecksDefault
    /\ hist[p].outcome = "Unknown"
    /\ hist[p].lines = << <<"y">>, <<"Y", "E", "S">> >>
    /\ hist[p].prompts = 2
    /\ hist[p].wrote

\* C7: an invocation that returns reject has not changed the store file; so
\* it is for (example.com, ssh-rsa, K2) against a store that holds
\* (example.com, ssh-rsa, K1) under the default or ask policy with a terminal.
C7_RejectLeavesFile ==
  \A p \in Procs :
    Rejected(p) => (~hist[p].wrote /\ knownHosts = hist[p].before)

C7_Witness ==
  \E p \in Procs :
    /\ Rejected(p)
    /\ AskPolicy(p)
    /\ cb[p].term = "tty"
    /\ cb[p].hostname = H22
    /\ cb[p].key = K2
    /\ hist[p].before = [exists |-> TRUE, data |-> <<Ent(H22, K1), NL>>]
    /\ knownHosts = hist[p].before

\* Number of occurrences of x in a sequence.
Count(seq, x) == Cardinality({i \in 1..Len(seq) : seq[i] = x})

\* The verifications that have accepted after writing their line.
Writers == {p \in Procs : Accepted(p) /\ hist[p].wrote}

\* C8: whatever the interleaving of concurrent verifications, the file
\* holds every line it had at the start followed by the lines of all the
\* writes, each once per write: no write is lost or repeated. When the
\* writers are verifications of distinct hostnames that the store did not
\* know, the line of each is in the file exactly once.
C8_NoLostAppend ==
  /\ Entries(knownHosts.data) = Entries(store0.data) \o added
  /\ \A p \in Writers :
       \E i \in 1..Len(added) : added[i] = KnownHostsLine(cb[p].hostname, cb[p].key)
  /\ (/\ Cardinality(Writers) = Len(added)
      /\ \A p \in Writers : ~HostKnown(store0.data, cb[p].hostname)
      /\ \A p, q \in Writers : p # q => cb[p].hostname # cb[q].hostname) =>
       \A p \in Writers :
         Count(knownHosts.data, KnownHostsLine(cb[p].hostname, cb[p].key)) = 1

C8_Witness ==
  \E p, q \in Procs :
    /\ p # q
    /\ Accepted(p) /\ Accepted(q)
    /\ hist[p].wrote /\ hist[q].wrote
    /\ cb[p].hostname # cb[q].hostname
    /\ hist[p].before = hist[q].before
    /\ ~HostKnown(store0.data, cb[p].hostname)
    /\ ~HostKnown(store0.data, cb[q].hostname)
    /\ Len(added) = 2
    /\ Len(Entries(knownHosts.data)) = Len(Entries(store0.data)) + 2

\* C9 as stated: a verification that waits for the mutex while another
\* holder keeps it returns in the end.
C9_AsStated ==
  \A p \in Procs :
    (pc[p] = "persist" /\ cb[p].knownHostsFile # DevNull /\ mutexHolder = Other)
      ~> (Done(p) \/ mutexHolder # Other)

\* C9 as amended: the acquisition has no timeout. While the mutex is held
\* by another holder, a verification that wants to persist stays waiting;
\* it leaves the wait only by an error of the acquisition itself, which is
\* returned as reject with the file as it was; it goes on to read and write
\* the file only from a state in which the mutex is free.
C9_WaitsWhileHeld ==
  [][\A p \in Procs :
       (pc[p] = "persist" /\ cb[p].knownHostsFile # DevNull /\ pc'[p] # "persist") =>
         \/ mutexHolder = Free /\ mutexHolder' = HeldBy(p) /\ pc'[p] = "readFile"
         \/ pc'[p] = "done" /\ cb'[p].err = ErrMutex /\ knownHosts' = knownHosts
    ]_vars

C9_Witness ==
  \E p \in Procs :
    /\ pc[p] = "persist"
    /\ cb[p].knownHostsFile = KnownHostsPath
    /\ mutexHolder = Other

\* C10: after hostKeyCallback has returned the verification does not hold
\* the mutex, whether it had acquired it or not; it holds it exactly while
\* it reads and writes the file.
C10_MutexReleasedOnReturn ==
  \A p \in Procs :
    /\ pc[p] \in {"readFile", "writeFile"} <=> mutexHolder = HeldBy(p)
    /\ pc[p] \in {"readFile", "writeFile"} => hist[p].acquired

C10_Witness ==
  \E p \in Procs :
    /\ Rejected(p)
    /\ hist[p].acquired
    /\ cb[p].err = ErrWriteFile
    /\ mutexHolder = Free

\* The policy switch has decided to accept: the policy adds without asking,
\* or the last line read is a "yes".
DecidedAccept(p) ==
  \/ cb[p].warnAdd
  \/ Len(hist[p].lines) > 0 /\ hist[p].lines[Len(hist[p].lines)] \in YesLines

\* C11: an invocation that returns accept has found a match, or has the
\* discard path, or has itself written the new record to the file; a
\* failure of the mutex, of the read or of the write after the decision to
\* accept is returned as reject, with the file as it was.
C11_PersistFailureRejects ==
  \A p \in Procs :
    /\ Accepted(p) =>
         \/ hist[p].outcome = "Matched"
         \/ cb[p].knownHostsFile = DevNull
         \/ /\ hist[p].wrote
            /\ GainedOneLine(hist[p].before, knownHosts,
                             KnownHostsLine(cb[p].hostname, cb[p].key))
    /\ (Done(p) /\ DecidedAccept(p) /\ hist[p].ioerr) =>
         /\ cb[p].err \in {ErrMutex, ErrReadFile, ErrWriteFile}
         /\ ~hist[p].wrote
         /\ knownHosts = hist[p].before

C11_Witness ==
  \E p \in Procs :
    /\ Rejected(p)
    /\ AskPolicy(p)
    /\ hist[p].lines = << <<"Y", "E", "S">> >>
    /\ hist[p].acquired
    /\ cb[p].err = ErrReadFile
    /\ knownHosts = hist[p].before

\* An earlier invocation, not this one, has written the line of the
\* (hostname, key) that p verifies.
PersistedEarlier(p) ==
  /\ ~hist[p].wrote
  /\ \E i \in 1..Len(added) : added[i] = KnownHostsLine(cb[p].hostname, cb[p].key)

\* C12: once a verification of (hostname, key) has accepted an unknown key
\* and written its line, a later verification of the same (hostname, key)
\* against the same file finds a match and accepts under every policy, with
\* no prompt, no line read, no mutex taken, and the line stays in the file
\* once.
C12_RoundTrip ==
  \A p \in Procs :
    (pc[p] # "idle" /\ cb[p].knownHostsFile = KnownHostsPath /\ PersistedEarlier(p)) =>
      /\ NoEffect(p)
      /\ hist[p].prompts = 0
      /\ LookedUp(p) => (hist[p].outcome = "Matched" /\ Accepted(p))
      /\ Count(knownHosts.data, KnownHostsLine(cb[p].hostname, cb[p].key)) = 1

C12_Witness ==
  \E p \in Procs :
    /\ Accepted(p)
    /\ cb[p].strictHostKeyChecking = StrictHostChecksYes
    /\ cb[p].knownHostsFile = KnownHostsPath
    /\ PersistedEarlier(p)
    /\ hist[p].outcome = "Matched"
    /\ cb[p].hostname = H2222
    /\ store0 = [exists |-> TRUE, data |-> <<Comment, NL, Ent(H22, K1)>>]

\* C13: a verification that has a terminal keeps it in raw mode from
\* getTerminal until it returns, and whatever the way it returns (match,
\* rejection by the policy, "no", read error, failure of the mutex, of the
\* read or of the write, record written) the prior mode is back by then.
C13_TerminalRestored ==
  \A p \in Procs :
    /\ (pc[p] \notin {"idle", "done"} /\ cb[p].term = "tty") => cb[p].raw
    /\ cb[p].raw => (cb[p].term = "tty" /\ pc[p] \notin {"idle", "done"})

C13_Witness ==
  \E p \in Procs :
    /\ Rejected(p)
    /\ cb[p].term = "tty"
    /\ cb[p].err = ErrReadLine
    /\ hist[p].prompts = 2
    /\ ~cb[p].raw

\* s is the beginning of t.
IsPrefix(s, t) == Len(s) <= Len(t) /\ SubSeq(t, 1, Len(s)) = s

\* C14: in every step of verifications that run one after another or at
\* the same time, the file keeps all it held, unmodified and in the same
\* order, at its beginning: what is written is the old content with text
\* added at the end, and a file that exists is never removed.
C14_AppendOnly ==
  [][ /\ IsPrefix(knownHosts.data, knownHosts'.data)
      /\ knownHosts.exists => knownHosts'.exists
    ]_vars

C14_Witness ==
  /\ store0 = [exists |-> TRUE, data |-> <<Comment, NL, Ent(H22, K1)>>]
  /\ Len(added) = 2
  /\ added[1] = added[2]
  /\ Len(knownHosts.data) = 8
  /\ IsPrefix(store0.data, knownHosts.data)

\* The content a persist of line must leave, given the content it found.
ExpectedContent(old, line) ==
  IF old = <<>> THEN <<line, NL>>
  ELSE IF old[Len(old)] = NL THEN old \o <<line, NL>>
  ELSE old \o <<NL, line, NL>>

\* C15: the file a persist leaves is the old content, one newline if the
\* old content is not empty and does not end with one, the new line, and one
\* newline; for a missing or an empty file it is the line and one newline.
C15_WrittenContent ==
  \A p \in Procs :
    (Done(p) /\ hist[p].wrote) =>
      LET line == KnownHostsLine(cb[p].hostname, cb[p].key)
          old == IF hist[p].before.exists THEN hist[p].before.data ELSE <<>>
          n == Len(knownHosts.data)
      IN /\ knownHosts.exists
         /\ knownHosts.data = ExpectedContent(old, line)
         /\ knownHosts.data[n] = NL /\ knownHosts.data[n - 1] = line
         /\ old = <<>> => n = 2

C15_Witness ==
  \E p \in Procs :
    /\ Accepted(p)
    /\ hist[p].wrote
    /\ hist[p].before = [exists |-> TRUE, data |-> <<Comment, NL, Ent(H22, K1)>>]
    /\ knownHosts.data =
         <<Comment, NL, Ent(H22, K1), NL, KnownHostsLine(cb[p].hostname, cb[p].key), NL>>

\* C16: with the path os.DevNull a verification never takes the mutex and
\* never reads or writes a file to persist; the store reads as empty, so the
\* key is unknown, and once the policy or the user has decided to accept,
\* the verification returns accept with the store file as it was.
C16_DevNullNoPersist ==
  \A p \in Procs :
    (pc[p] # "idle" /\ cb[p].knownHostsFile = DevNull) =>
      /\ pc[p] \notin {"readFile", "writeFile"}
      /\ ~hist[p].acquired
      /\ ~hist[p].wrote
      /\ mutexHolder # HeldBy(p)
      /\ knownHosts = hist[p].before
      /\ LookedUp(p) => hist[p].outcome = "Unknown"
      /\ (Done(p) /\ DecidedAccept(p)) => Accepted(p)

C16_Witness ==
  \E p \in Procs :
    /\ Accepted(p)
    /\ cb[p].knownHostsFile = DevNull
    /\ cb[p].strictHostKeyChecking = StrictHostChecksNo
    /\ hist[p].outcome = "Unknown"
    /\ cb[p].hostname = H22 /\ cb[p].key = K2
    /\ knownHosts = [exists |-> TRUE, data |-> <<Ent(H22, K1), NL>>]
    /\ mutexHolder = Other

\* A write to or a read from the terminal has failed in this invocation:
\* the write of the "permanently added" warning, whose result the callback
\* does not look at (the history does not record the failed writes of the
\* prompt, which change nothing either), the write of the changed-key
\* warning, or the read of a line.
TerminalFailed(p) ==
  \/ hist[p].dropped # "none"
  \/ hist[p].ioerr /\ cb[p].err \in {ErrReadLine, ErrPrintWarning}

HostLines(data, hostname) ==
  {i \in 1..Len(data) : IsEntry(data, i) /\ PatternAddr(data[i].hosts) = hostname}

\* C18: for a changed key the warning ends with the line number of a record
\* of the hostname that has the offered key type, when the store has one
\* (the last one, when it has several); otherwise it lists every record of
\* the hostname, with its key type and its line number, in the order of the
\* file.
C18_WarningNamesRecords ==
  \A p \in Procs :
    hist[p].outcome = "Changed" =>
      LET data == hist[p].before.data
          all == HostLines(data, cb[p].hostname)
          same == {i \in all : data[i].type = cb[p].key.type}
          w == hist[p].warning
      IN
      /\ all # {}
      /\ IF same # {}
         THEN /\ w.kind = "offending"
              /\ Len(w.keys) = 1
              /\ w.keys[1].type = cb[p].key.type
              /\ \E i \in same :
                   /\ \A j \in same : j <= i
                   /\ w.keys[1].line = LineOf(data, i)
         ELSE /\ w.kind = "algorithms"
              /\ Len(w.keys) = Cardinality(all)
              /\ \A i \in all :
                   \E j \in 1..Len(w.keys) :
                     w.keys[j] = [type |-> data[i].type, line |-> LineOf(data, i)]
              /\ \A j, k \in 1..Len(w.keys) : j < k => w.keys[j].line < w.keys[k].line

C18_Witness ==
  \E p \in Procs :
    /\ Rejected(p)
    /\ hist[p].outcome = "Changed"
    /\ cb[p].hostname = H22 /\ cb[p].key = K1
    /\ hist[p].before.data = <<Ent(H22, K2), NL, Ent(H2222, K2), NL, Ent(H22, K2), NL>>
    /\ hist[p].warning = [kind |-> "offending", keys |-> <<[type |-> "ssh-rsa", line |-> 3]>>]

\* C19: the key is classified once, before the mutex is taken: a
\* verification that persists has found the key unknown and does not look it
\* up again in the content it reads under the mutex. Each verification that
\* accepts a key it did not find adds exactly one line, its own, even when
\* the file already holds that line; so two verifications of one unknown
\* (hostname, key) that overlap both accept and leave two equal lines.
C19_ClassifiedOnceAddsOneLine ==
  [][\A p \in Procs :
       LET line == KnownHostsLine(cb[p].hostname, cb[p].key) IN
       /\ pc'[p] \in {"persist", "readFile", "writeFile"} => hist'[p].outcome = "Unknown"
       /\ (pc'[p] = "done" /\ cb'[p].err = Nil /\ hist'[p].outcome # "Matched") =>
            hist'[p].wrote
       /\ (pc[p] = "writeFile" /\ pc'[p] = "done" /\ cb'[p].err = Nil) =>
            /\ Entries(knownHosts'.data) = Append(Entries(knownHosts.data), line)
            /\ Count(knownHosts'.data, line) = Count(knownHosts.data, line) + 1
    ]_vars

C19_Witness ==
  \E p, q \in Procs :
    /\ p # q
    /\ Accepted(p) /\ Accepted(q)
    /\ cb[p].hostname = cb[q].hostname /\ cb[p].key = cb[q].key
    /\ hist[p].outcome = "Unknown" /\ hist[q].outcome = "Unknown"
    /\ hist[p].wrote /\ hist[q].wrote
    /\ Count(store0.data, KnownHostsLine(cb[p].hostname, cb[p].key)) = 0
    /\ Count(knownHosts.data, KnownHostsLine(cb[p].hostname, cb[p].key)) = 2

\* C20: after every method of the command, sess is nil exactly when client
\* is nil; Wait and Kill on a command without a session (none set up yet,
\* closed, or waited for) return "command has not been started" and Close
\* on it returns nil, and they leave the command as it was; after Close and
\* after Wait the command has no session.
C20_SessionAndClientTogether ==
  /\ (cmd.sess = NilPtr) <=> (cmd.client = NilPtr)
  /\ (ret.op \in {"Wait", "Kill"} /\ ret.before.sess = NilPtr) =>
       (ret.err = ErrNotStarted /\ cmd = ret.before)
  /\ (ret.op = "Close" /\ ret.before.sess = NilPtr) =>
       (ret.err = Nil /\ cmd = ret.before)
  /\ ret.op \in {"Close", "Wait"} => cmd.sess = NilPtr
  /\ ret.op = "none" => cmd.sess = NilPtr

C20_Witness ==
  /\ ret.op = "Kill"
  /\ ret.prev = "Wait"
  /\ ret.err = ErrNotStarted
  /\ dials = MaxDials
  /\ cmd.client = NilPtr

====
